---- MODULE Spec2Model ----
(***************************************************************************)
(* Model of the catalog navigation bot in src/main.py: the callback-query  *)
(* router handle_buttons, the album cleanup clear_last_album, the product  *)
(* view show_product, the in-place views and the /start command.           *)
(*                                                                         *)
(* Strings that the code inspects character by character (callback data,   *)
(* product ids, category keys) are tuples of one-character strings, so     *)
(* that str.startswith and slicing are computed, not assumed.              *)
(*                                                                         *)
(* Every `await` of a handler is one action: the transport call, its       *)
(* outcome (accepted or rejected by the transport) and the straight-line   *)
(* code that follows it up to the next await.                              *)
(***************************************************************************)
EXTENDS Integers, Sequences, FiniteSets, TLC

\* ------------------------------------------------------------------ bounds
\* Largest message id the transport hands out in one behaviour.
MaxMsgId == 4
\* Longest photo list of a product.
MaxPhotos == 2
\* Longest raw product name of a catalog file.
MaxNameLen == 4
\* Number of times the display-name transform is applied to one record.
MaxLoads == 2

\* ------------------------------------------------------------- string data
T_noop == <<"n", "o", "o", "p">>
T_available == <<"a", "v", "a", "i", "l", "a", "b", "l", "e">>
T_cat == <<"c", "a", "t", "_">>
T_home == <<"h", "o", "m", "e">>
T_about == <<"a", "b", "o", "u", "t">>
T_delivery == <<"d", "e", "l", "i", "v", "e", "r", "y">>
T_payment == <<"p", "a", "y", "m", "e", "n", "t">>
T_services == <<"s", "e", "r", "v", "i", "c", "e", "s">>
T_warranty == <<"w", "a", "r", "r", "a", "n", "t", "y">>
T_start == <<"/", "s", "t", "a", "r", "t">>
T_p1 == <<"p", "1">>
T_p2 == <<"p", "2">>
T_zzz == <<"z", "z", "z">>
K_a == <<"a">>
K_b == <<"b">>
K_c == <<"c">>
T_cat_a == T_cat \o K_a
T_cat_b == T_cat \o K_b
T_cat_c == T_cat \o K_c

\* The page keys tested at line 215.
PageKeys == {T_about, T_delivery, T_payment, T_services, T_warranty}

\* ------------------------------------------------------------ environment
Users == {"u1", "u2"}
Chats == {"c1", "c2"}
Handlers == {1, 2}

\* Category keys a product record may carry.
CategoryKeys == {K_a}

\* File name stems the product folder may hold: ordinary ids and ids that
\* collide with the router's fixed tokens.
IdPool == {T_p1, T_cat_a, T_about, T_home, T_noop, T_available}

\* Photo lists: URL number i stands for the i-th URL of the record.
PhotoLists == {[i \in 1..n |-> i] : n \in 0..MaxPhotos}

ProductRecords == [category : CategoryKeys, photos : PhotoLists]

\* A record of the product index; pos is its place in the iteration order of
\* the dictionary, that is the order in which load_all_lots met the files.
Loaded(r, n) == [category |-> r.category, photos |-> r.photos, pos |-> n]

\* The category map of lines 140-141 (key -> display name) and the order of
\* its items.
categories == (K_a :> "A") @@ (K_b :> "B")

CategoryOrder == <<K_a, K_b>>

\* Callback data the transport may deliver.
Tokens == IdPool \cup PageKeys \cup {T_p2, T_zzz}

\* ------------------------------------------------------------------- state
VARIABLES
    products,    \* the product index built at import time (id -> record)
    user_data,   \* context.user_data: per sending user, the "last_album" list
    messages,    \* messages the bot sent, by message id: chat, kind, live
    handlers     \* handler coroutines: position, locals, the transport calls
                 \* made (log) and user_data as it was at dispatch (pre)

vars == <<products, user_data, messages, handlers>>

\* ---------------------------------------------------------------- helpers
StartsWith(s, p) == Len(s) >= Len(p) /\ SubSeq(s, 1, Len(p)) = p

View(v, a) == [view |-> v, arg |-> a]

\* A transport call: kbd is the reply markup it carries and label the
\* category name interpolated into its text (line 243), both empty unless
\* the call sets them.
Call(o, c, is, r, md, k) ==
    [op |-> o, chat |-> c, ids |-> is, view |-> r.view, arg |-> r.arg,
     media |-> md, ok |-> k, kbd |-> <<>>, label |-> ""]

NoView == View("", <<>>)

\* kbd0 is the number of live keyboard messages of the chat at dispatch.
IdleHandler ==
    [pc |-> "idle", user |-> "", chat |-> "", data |-> <<>>, msg |-> 0,
     album |-> <<>>, i |-> 0, log |-> <<>>, pre |-> <<>>, kbd0 |-> 0]

Free(h) == handlers[h].pc \in {"idle", "done", "error"}

InFlight(h) == ~Free(h)

Live(c, m) ==
    /\ m \in 1..Len(messages)
    /\ messages[m].chat = c
    /\ messages[m].live

Kill(m) == [messages EXCEPT ![m].live = FALSE]

\* The live messages of chat c that carry an inline keyboard.
LiveKeyboards(c) ==
    {m \in 1..Len(messages) : Live(c, m) /\ messages[m].kind = "kbd"}

NewIds(n) == [i \in 1..n |-> Len(messages) + i]

Sent(c, kind, n) ==
    messages \o [i \in 1..n |-> [chat |-> c, kind |-> kind, live |-> TRUE]]

Room(n) == Len(messages) + n <= MaxMsgId

\* ----------------------------------------------------------------- router
\* RouteView with the product test moved ahead of the "cat_" test.
M_RouteViewProductFirst(d, prods) ==
    IF d = T_noop THEN View("NoOp", <<>>)
    ELSE IF d = T_available THEN View("CategoryList", <<>>)
    ELSE IF d \in DOMAIN prods THEN View("ProductDetail", d)
    ELSE IF StartsWith(d, T_cat) THEN View("ProductList", SubSeq(d, 5, Len(d)))
    ELSE IF d \in PageKeys THEN View("StaticPage", d)
    ELSE IF d = T_home THEN View("Home", <<>>)
    ELSE View("None", <<>>)

\* RouteView without the early return for "noop" (lines 204-205 missing).
M_RouteViewNoNoop(d, prods) ==
    IF d = T_available THEN View("CategoryList", <<>>)
    ELSE IF StartsWith(d, T_cat) THEN View("ProductList", SubSeq(d, 5, Len(d)))
    ELSE IF d \in DOMAIN prods THEN View("ProductDetail", d)
    ELSE IF d \in PageKeys THEN View("StaticPage", d)
    ELSE IF d = T_home THEN View("Home", <<>>)
    ELSE View("None", <<>>)

\* handle_buttons, lines 204-218: the branch taken for callback data d.
RouteView(d, prods) ==
    IF d = T_noop THEN View("NoOp", <<>>)
    ELSE IF d = T_available THEN View("CategoryList", <<>>)
    ELSE IF StartsWith(d, T_cat) THEN View("ProductList", SubSeq(d, 5, Len(d)))
    ELSE IF d \in DOMAIN prods THEN View("ProductDetail", d)
    ELSE IF d \in PageKeys THEN View("StaticPage", d)
    ELSE IF d = T_home THEN View("Home", <<>>)
    ELSE View("None", <<>>)

EditViews == {"CategoryList", "ProductList", "StaticPage", "Home"}

\* Where handle_buttons goes once clear_last_album has returned.
AfterClear(d) == IF RouteView(d, products).view = "None" THEN "done" ELSE "render"

\* -------------------------------------------------------------- keyboards
\* Inline keyboards are rows of buttons; a button carries callback data or
\* the contact URL (button captions are left out).
Button(d) == [kind |-> "callback", data |-> d]

ContactButton == [kind |-> "url", data |-> <<>>]

\* The two navigation rows that close every keyboard but the main menu.
NavRows(back) == <<<<Button(back), Button(T_home)>>, <<ContactButton>>>>

main_menu_keyboard ==
    <<<<Button(T_about), Button(T_warranty)>>,
      <<Button(T_delivery), Button(T_payment)>>,
      <<Button(T_services)>>,
      <<Button(T_available)>>,
      <<ContactButton>>>>

category_keyboard ==
    LET n == Len(CategoryOrder)
        cat_buttons == [i \in 1..n |-> Button(T_cat \o CategoryOrder[i])]
        rows == [j \in 1..((n + 1) \div 2) |->
                    SubSeq(cat_buttons, 2 * j - 1,
                           IF 2 * j <= n THEN 2 * j ELSE n)]
    IN  rows \o NavRows(T_home)

product_keyboard(product) ==
    <<<<Button(T_noop)>>>> \o NavRows(T_cat \o product.category)

default_nav_keyboard == NavRows(T_home)

\* The ids of the products of category cat_key, in the order of the index.
Matching(cat_key, prods) ==
    LET S == {k \in DOMAIN prods : prods[k].category = cat_key}
    IN  [i \in 1..Cardinality(S) |->
            CHOOSE k \in S :
                Cardinality({e \in S : prods[e].pos < prods[k].pos}) = i - 1]

Placeholder == <<<<Button(T_available)>>>>

\* ProductButtons with a "cat_" prefix put before the product id, as on the
\* category buttons.
M_ProductButtonsPrefixed(cat_key, prods) ==
    LET ks == Matching(cat_key, prods)
        buttons == [i \in 1..Len(ks) |-> <<Button(T_cat \o ks[i])>>]
    IN  IF buttons = <<>> THEN Placeholder ELSE buttons

\* ProductButtons with the placeholder row added to every list.
M_ProductButtonsPlaceholderAlways(cat_key, prods) ==
    LET ks == Matching(cat_key, prods)
    IN  [i \in 1..Len(ks) |-> <<Button(ks[i])>>] \o Placeholder

\* show_category_products, lines 235-237: one row per product of the
\* category, or the placeholder row when there is none.
ProductButtons(cat_key, prods) ==
    LET ks == Matching(cat_key, prods)
        buttons == [i \in 1..Len(ks) |-> <<Button(ks[i])>>]
    IN  IF buttons = <<>> THEN Placeholder ELSE buttons

\* show_category_products, lines 239-244.
product_list_keyboard(cat_key, prods) ==
    ProductButtons(cat_key, prods) \o NavRows(T_available)

\* categories.get(cat_key, ...) of line 243.
CategoryLabel(cat_key) ==
    IF cat_key \in DOMAIN categories THEN categories[cat_key] ELSE "unknown"

\* The reply markup of the view r.
Keyboard(r, prods) ==
    CASE r.view = "Home" -> main_menu_keyboard
      [] r.view = "CategoryList" -> category_keyboard
      [] r.view = "ProductList" -> product_list_keyboard(r.arg, prods)
      [] r.view = "StaticPage" -> default_nav_keyboard
      [] r.view = "ProductDetail" -> product_keyboard(prods[r.arg])
      [] OTHER -> <<>>

\* A call that carries the view r: its reply markup and, for a product list,
\* the label of the category.
Carrying(call, r, prods) ==
    [call EXCEPT !.kbd = Keyboard(r, prods),
                 !.label = IF r.view = "ProductList"
                           THEN CategoryLabel(r.arg) ELSE ""]

\* ---------------------------------------------------------------- actions
\* StartCommand that also drops the stored album of the user.
M_StartCommandClears(h, u, c) ==
    /\ Free(h)
    /\ \/ /\ Room(1)
          /\ messages' = Sent(c, "kbd", 1)
          /\ handlers' = [handlers EXCEPT ![h] =
                [IdleHandler EXCEPT !.pc = "done", !.user = u, !.chat = c,
                    !.data = T_start, !.pre = user_data,
                    !.kbd0 = Cardinality(LiveKeyboards(c)),
                    !.log = <<Carrying(Call("sendText", c, NewIds(1),
                                            View("Home", <<>>), <<>>, TRUE),
                                       View("Home", <<>>), products)>>]]
       \/ /\ messages' = messages
          /\ handlers' = [handlers EXCEPT ![h] =
                [IdleHandler EXCEPT !.pc = "error", !.user = u, !.chat = c,
                    !.data = T_start, !.pre = user_data,
                    !.kbd0 = Cardinality(LiveKeyboards(c)),
                    !.log = <<Carrying(Call("sendText", c, <<>>,
                                            View("Home", <<>>), <<>>, FALSE),
                                       View("Home", <<>>), products)>>]]
    /\ user_data' = [user_data EXCEPT ![u] = <<>>]
    /\ UNCHANGED products

\* start, lines 191-195.
StartCommand(h, u, c) ==
    /\ Free(h)
    /\ \/ /\ Room(1)
          /\ messages' = Sent(c, "kbd", 1)
          /\ handlers' = [handlers EXCEPT ![h] =
                [IdleHandler EXCEPT !.pc = "done", !.user = u, !.chat = c,
                    !.data = T_start, !.pre = user_data,
                    !.kbd0 = Cardinality(LiveKeyboards(c)),
                    !.log = <<Carrying(Call("sendText", c, NewIds(1),
                                            View("Home", <<>>), <<>>, TRUE),
                                       View("Home", <<>>), products)>>]]
       \/ /\ messages' = messages
          /\ handlers' = [handlers EXCEPT ![h] =
                [IdleHandler EXCEPT !.pc = "error", !.user = u, !.chat = c,
                    !.data = T_start, !.pre = user_data,
                    !.kbd0 = Cardinality(LiveKeyboards(c)),
                    !.log = <<Carrying(Call("sendText", c, <<>>,
                                            View("Home", <<>>), <<>>, FALSE),
                                       View("Home", <<>>), products)>>]]
    /\ UNCHANGED <<products, user_data>>

\* A callback query arrives: handle_buttons, lines 198-201.
Begin(h, u, c, d, m) ==
    /\ Free(h)
    /\ Live(c, m)
    /\ messages[m].kind = "kbd"
    /\ handlers' = [handlers EXCEPT ![h] =
            [IdleHandler EXCEPT !.pc = "answer", !.user = u, !.chat = c,
                !.data = d, !.msg = m, !.pre = user_data,
                !.kbd0 = Cardinality(LiveKeyboards(c))]]
    /\ UNCHANGED <<products, user_data, messages>>

\* The dictionary pop of clear_last_album, line 222.
TakeLastAlbum(u) == user_data[u]

\* ClearLastAlbum reading the entry without removing it (get for pop).
M_ClearLastAlbumKeep(u) == user_data

ClearLastAlbum(u) == [user_data EXCEPT ![u] = <<>>]

\* Answer without the acknowledgment of line 202: the handler goes straight
\* to the noop test and the cleanup.
M_AnswerSkipsAck(h) ==
    LET s == handlers[h]
        album == TakeLastAlbum(s.user)
    IN  /\ s.pc = "answer"
        /\ \/ /\ RouteView(s.data, products).view = "NoOp"
              /\ handlers' = [handlers EXCEPT ![h].pc = "noop_answer"]
              /\ UNCHANGED user_data
           \/ /\ RouteView(s.data, products).view # "NoOp"
              /\ user_data' = [user_data EXCEPT ![s.user] = <<>>]
              /\ handlers' = [handlers EXCEPT
                    ![h].pc = IF album = <<>> THEN AfterClear(s.data) ELSE "del",
                    ![h].album = album,
                    ![h].i = 1]
        /\ UNCHANGED <<products, messages>>

\* handle_buttons, line 202, then lines 204-207 and 222 up to the next await.
Answer(h) ==
    LET s == handlers[h]
        ack == Call("answer", s.chat, <<>>, NoView, <<>>, TRUE)
        album == TakeLastAlbum(s.user)
    IN  /\ s.pc = "answer"
        /\ \/ /\ RouteView(s.data, products).view = "NoOp"
              /\ handlers' = [handlers EXCEPT ![h].pc = "noop_answer",
                                              ![h].log = Append(s.log, ack)]
              /\ UNCHANGED user_data
           \/ /\ RouteView(s.data, products).view # "NoOp"
              /\ user_data' = ClearLastAlbum(s.user)
              /\ handlers' = [handlers EXCEPT
                    ![h].pc = IF album = <<>> THEN AfterClear(s.data) ELSE "del",
                    ![h].album = album,
                    ![h].i = 1,
                    ![h].log = Append(s.log, ack)]
           \/ /\ handlers' = [handlers EXCEPT ![h].pc = "error",
                    ![h].log = Append(s.log, [ack EXCEPT !.ok = FALSE])]
              /\ UNCHANGED user_data
        /\ UNCHANGED <<products, messages>>

\* handle_buttons, line 205.
NoopAnswer(h) ==
    LET s == handlers[h]
        ack == Call("answer", s.chat, <<>>, NoView, <<>>, TRUE)
    IN  /\ s.pc = "noop_answer"
        /\ \/ handlers' = [handlers EXCEPT ![h].pc = "done",
                                           ![h].log = Append(s.log, ack)]
           \/ handlers' = [handlers EXCEPT ![h].pc = "error",
                    ![h].log = Append(s.log, [ack EXCEPT !.ok = FALSE])]
        /\ UNCHANGED <<products, user_data, messages>>

\* The chat a cleanup delete is addressed to, line 225.
DeleteChat(s) == s.chat

\* AfterFailedDelete with the rejection escaping the loop.
M_AfterFailedDeleteRaises(s) == "error"

\* What the loop of clear_last_album does after a rejected delete, 226-227.
AfterFailedDelete(s) ==
    IF s.i = Len(s.album) THEN AfterClear(s.data) ELSE "del"

\* clear_last_album, lines 223-227: one iteration of the loop.
DeleteAlbumMessage(h) ==
    LET s == handlers[h]
        id == s.album[s.i]
        del == Call("deleteMessage", DeleteChat(s), <<id>>, NoView, <<>>, TRUE)
        next == IF s.i = Len(s.album) THEN AfterClear(s.data) ELSE "del"
    IN  /\ s.pc = "del"
        /\ \/ /\ Live(DeleteChat(s), id)
              /\ messages' = Kill(id)
              /\ handlers' = [handlers EXCEPT ![h].pc = next,
                    ![h].i = s.i + 1,
                    ![h].log = Append(s.log, del)]
           \/ /\ messages' = messages
              /\ handlers' = [handlers EXCEPT ![h].pc = AfterFailedDelete(s),
                    ![h].i = s.i + 1,
                    ![h].log = Append(s.log, [del EXCEPT !.ok = FALSE])]
        /\ UNCHANGED <<products, user_data>>

\* show_categories, show_category_products, show_text_page, show_home:
\* lines 230-231, 234-244, 270-273, 276-278.
RenderEdit(h) ==
    LET s == handlers[h]
        r == RouteView(s.data, products)
        edit == Carrying(Call("editMessageText", s.chat, <<s.msg>>, r, <<>>,
                              TRUE), r, products)
    IN  /\ s.pc = "render"
        /\ r.view \in EditViews
        /\ \/ /\ Live(s.chat, s.msg)
              /\ handlers' = [handlers EXCEPT ![h].pc = "done",
                                              ![h].log = Append(s.log, edit)]
           \/ handlers' = [handlers EXCEPT ![h].pc = "error",
                    ![h].log = Append(s.log, [edit EXCEPT !.ok = FALSE])]
        /\ UNCHANGED <<products, user_data, messages>>

\* HasPhotos taking the album branch for every record.
M_HasPhotosAlways(p) == TRUE

\* show_product, line 249: the record has a non-empty photo list.
HasPhotos(p) == p.photos # <<>>

\* show_product, lines 249-256: the product has no photos.
SendPlain(h) ==
    LET s == handlers[h]
        r == RouteView(s.data, products)
        send == Carrying(Call("sendText", s.chat, NewIds(1), r, <<>>, TRUE),
                         r, products)
    IN  /\ s.pc = "render"
        /\ r.view = "ProductDetail"
        /\ ~HasPhotos(products[s.data])
        /\ \/ /\ Room(1)
              /\ messages' = Sent(s.chat, "kbd", 1)
              /\ handlers' = [handlers EXCEPT ![h].pc = "delete_trigger",
                                              ![h].log = Append(s.log, send)]
           \/ /\ messages' = messages
              /\ handlers' = [handlers EXCEPT ![h].pc = "error",
                    ![h].log = Append(s.log,
                        [send EXCEPT !.ok = FALSE, !.ids = <<>>])]
        /\ UNCHANGED <<products, user_data>>

\* show_product, line 259: the media list built from the photo URLs.
Media(p) == p.photos

\* SetLastAlbum left out: nothing is stored when the album is sent.
M_SetLastAlbumDropped(u, ids) == user_data

\* SetLastAlbum keeping only the first message id of the album.
M_SetLastAlbumFirstOnly(u, ids) == [user_data EXCEPT ![u] = <<ids[1]>>]

\* show_product, line 261: the session entry written after the album is sent.
SetLastAlbum(u, ids) == [user_data EXCEPT ![u] = ids]

\* show_product, lines 257-261.
SendAlbum(h) ==
    LET s == handlers[h]
        r == RouteView(s.data, products)
        media == Media(products[s.data])
        n == Len(media)
        send == Call("sendAlbum", s.chat, NewIds(n), r, media, TRUE)
    IN  /\ s.pc = "render"
        /\ r.view = "ProductDetail"
        /\ HasPhotos(products[s.data])
        /\ \/ /\ Room(n)
              /\ messages' = Sent(s.chat, "photo", n)
              /\ user_data' = SetLastAlbum(s.user, NewIds(n))
              /\ handlers' = [handlers EXCEPT ![h].pc = "send_text",
                                              ![h].log = Append(s.log, send)]
           \/ /\ messages' = messages
              /\ user_data' = user_data
              /\ handlers' = [handlers EXCEPT ![h].pc = "error",
                    ![h].log = Append(s.log,
                        [send EXCEPT !.ok = FALSE, !.ids = <<>>])]
        /\ UNCHANGED products

\* show_product, lines 262-267.
SendText(h) ==
    LET s == handlers[h]
        r == RouteView(s.data, products)
        send == Carrying(Call("sendText", s.chat, NewIds(1), r, <<>>, TRUE),
                         r, products)
    IN  /\ s.pc = "send_text"
        /\ \/ /\ Room(1)
              /\ messages' = Sent(s.chat, "kbd", 1)
              /\ handlers' = [handlers EXCEPT ![h].pc = "delete_trigger",
                                              ![h].log = Append(s.log, send)]
           \/ /\ messages' = messages
              /\ handlers' = [handlers EXCEPT ![h].pc = "error",
                    ![h].log = Append(s.log,
                        [send EXCEPT !.ok = FALSE, !.ids = <<>>])]
        /\ UNCHANGED <<products, user_data>>

\* DeleteTrigger without line 268: show_product returns after the send.
M_DeleteTriggerSkipped(h) ==
    /\ handlers[h].pc = "delete_trigger"
    /\ handlers' = [handlers EXCEPT ![h].pc = "done"]
    /\ UNCHANGED <<products, user_data, messages>>

\* show_product, line 268.
DeleteTrigger(h) ==
    LET s == handlers[h]
        del == Call("deleteTrigger", s.chat, <<s.msg>>, NoView, <<>>, TRUE)
    IN  /\ s.pc = "delete_trigger"
        /\ \/ /\ Live(s.chat, s.msg)
              /\ messages' = Kill(s.msg)
              /\ handlers' = [handlers EXCEPT ![h].pc = "done",
                                              ![h].log = Append(s.log, del)]
           \/ /\ messages' = messages
              /\ handlers' = [handlers EXCEPT ![h].pc = "error",
                    ![h].log = Append(s.log, [del EXCEPT !.ok = FALSE])]
        /\ UNCHANGED <<products, user_data>>

\* One step of the coroutine in slot h.
Step(h) ==
    \/ Answer(h)
    \/ NoopAnswer(h)
    \/ DeleteAlbumMessage(h)
    \/ RenderEdit(h)
    \/ SendPlain(h)
    \/ SendAlbum(h)
    \/ SendText(h)
    \/ DeleteTrigger(h)

\* ---------------------------------------------------------- specifications
\* The product index of load_all_lots, lines 90-108: any set of file stems.
Catalogs ==
    UNION {[S -> {Loaded(r, n) : r \in ProductRecords,
                                 n \in 1..Cardinality(IdPool)}] :
            S \in SUBSET IdPool}

InitWith(cats) ==
    /\ products \in cats
    /\ user_data = [u \in Users |-> <<>>]
    /\ messages = <<>>
    /\ handlers = [h \in Handlers |-> IdleHandler]

\* The application of lines 286-290 processes one update at a time: an update
\* is dispatched once the handler of the previous one has returned or raised.
NoneInFlight == \A h \in Handlers : Free(h)

\* Catalogs of two products, loaded in either order: p1 of category "a" with
\* any photo list, p2 of category "a" or "b" without photos.
MainCatalogs ==
    {[d \in {T_p1, T_p2} |->
        IF d = T_p1
        THEN [category |-> K_a, photos |-> ph, pos |-> n]
        ELSE [category |-> cat, photos |-> <<>>, pos |-> 3 - n]] :
     ph \in PhotoLists, cat \in {K_a, K_b}, n \in {1, 2}}

\* One token of each routing class.
MainTokens ==
    {T_noop, T_available, T_cat_a, T_cat_b, T_cat_c, T_p1, T_p2, T_about,
     T_home, T_zzz}

Init == InitWith(MainCatalogs)

\* One user in a private chat.
Next ==
    \/ NoneInFlight /\ StartCommand(1, "u1", "c1")
    \/ \E d \in MainTokens, m \in 1..MaxMsgId :
            NoneInFlight /\ Begin(1, "u1", "c1", d, m)
    \/ Step(1)

Spec == Init /\ [][Next]_vars

\* Two users in two chats (group chats: either user may tap in either chat).
GroupInit ==
    InitWith({cat \in MainCatalogs :
                cat[T_p1].pos = 1 /\ cat[T_p2].category = K_a})

GroupNext ==
    \/ \E u \in Users, c \in Chats :
            NoneInFlight /\ StartCommand(1, u, c)
    \/ \E u \in Users, c \in Chats, d \in {T_noop, T_p1, T_home},
          m \in 1..MaxMsgId :
            NoneInFlight /\ Begin(1, u, c, d, m)
    \/ Step(1)

GroupSpec == GroupInit /\ [][GroupNext]_vars

\* Every set of product ids over the colliding file stems (the records of one
\* index alike, with at most one photo), one user, one chat, one /start.
IdOrder == <<T_p1, T_cat_a, T_about, T_home, T_noop, T_available>>

RouteCatalogs ==
    {[d \in S |-> Loaded(r, CHOOSE i \in 1..Len(IdOrder) : IdOrder[i] = d)] :
        S \in SUBSET IdPool,
        r \in {q \in ProductRecords : Len(q.photos) <= 1}}

RouteInit == InitWith(RouteCatalogs)

RouteNext ==
    \/ NoneInFlight /\ messages = <<>> /\ StartCommand(1, "u1", "c1")
    \/ \E d \in Tokens, m \in 1..MaxMsgId :
            NoneInFlight /\ Begin(1, "u1", "c1", d, m)
    \/ Step(1)

RouteSpec == RouteInit /\ [][RouteNext]_vars

\* Updates dispatched concurrently: after one /start, handlers of one user in
\* one chat interleave at their awaits.
ConcInit ==
    InitWith({[d \in {T_p1} |-> [category |-> K_a, photos |-> ph, pos |-> 1]] :
              ph \in PhotoLists})

ConcNext ==
    \/ \E h \in Handlers : messages = <<>> /\ StartCommand(h, "u1", "c1")
    \/ \E h \in Handlers, d \in {T_noop, T_p1, T_home}, m \in 1..MaxMsgId :
            Begin(h, "u1", "c1", d, m)
    \/ \E h \in Handlers : Step(h)

ConcSpec == ConcInit /\ [][ConcNext]_vars

\* The call slot h makes in this step is accepted by the transport.
Accepted(h) == handlers'[h].log[Len(handlers'[h].log)].ok

\* The group chats with a transport that accepts every deleteMessage.
GroupOkInit == GroupInit

GroupOkNext ==
    \/ \E u \in Users, c \in Chats :
            NoneInFlight /\ StartCommand(1, u, c)
    \/ \E u \in Users, c \in Chats, d \in {T_noop, T_p1, T_home},
          m \in 1..MaxMsgId :
            NoneInFlight /\ Begin(1, u, c, d, m)
    \/ Answer(1)
    \/ NoopAnswer(1)
    \/ DeleteAlbumMessage(1) /\ Accepted(1)
    \/ RenderEdit(1)
    \/ SendPlain(1)
    \/ SendAlbum(1)
    \/ SendText(1)
    \/ DeleteTrigger(1) /\ Accepted(1)

GroupOkSpec == GroupOkInit /\ [][GroupOkNext]_vars

\* ------------------------------------------------------------ display names
\* The characters of a name or a price; "#" stands for the check-mark emoji
\* and "E" for the euro sign of the display prefix.
NameChars == {"#", " ", "E", "|", "x"}
PriceChars == {"1", "|"}
Strings(chars, n) == UNION {[1..k -> chars] : k \in 0..n}
RawNames == Strings(NameChars, MaxNameLen)
RawPrices == Strings(PriceChars, 1)

\* `"|" in name`
Contains(s, ch) == \E i \in 1..Len(s) : s[i] = ch

\* name.split("|", 1)[-1]: what follows the first "|".
AfterFirst(s, ch) ==
    LET i == CHOOSE j \in 1..Len(s) : s[j] = ch /\ \A k \in 1..(j - 1) : s[k] # ch
    IN  SubSeq(s, i + 1, Len(s))

\* str.strip()
Strip(s) ==
    LET I == {i \in 1..Len(s) : s[i] # " "}
        lo == CHOOSE i \in I : \A j \in I : i <= j
        hi == CHOOSE i \in I : \A j \in I : j <= i
    IN  IF I = {} THEN <<>> ELSE SubSeq(s, lo, hi)

\* The body of the loop of process_product_names for one record.
DisplayName(price, name) ==
    LET bare == IF StartsWith(name, <<"#", " ", "E">>) /\ Contains(name, "|")
                THEN Strip(AfterFirst(name, "|"))
                ELSE name
    IN  <<"#", " ", "E">> \o price \o <<" ", "|", " ">> \o bare

\* process_product_names over the whole catalog; `loads` counts the passes
\* and `once` keeps the name the first pass produced.
ProcessProductNames ==
    /\ \E k \in DOMAIN products : products[k].loads < MaxLoads
    /\ products' = [k \in DOMAIN products |->
            LET p == products[k]
                n == DisplayName(p.price, p.name)
            IN  [p EXCEPT !.name = n,
                          !.loads = @ + 1,
                          !.once = IF p.loads = 0 THEN n ELSE @]]
    /\ UNCHANGED <<user_data, messages, handlers>>

\* The catalog as read from the files: one raw record, never processed.
NameInit ==
    /\ \E n \in RawNames, pr \in RawPrices :
            products = [k \in {T_p1} |->
                [name |-> n, price |-> pr, loads |-> 0, once |-> <<>>]]
    /\ user_data = [u \in Users |-> <<>>]
    /\ messages = <<>>
    /\ handlers = [h \in Handlers |-> IdleHandler]

NameNext == ProcessProductNames

NameSpec == NameInit /\ [][NameNext]_vars

\* ----------------------------------------------------------------- claims
RenderOps == {"editMessageText", "sendText", "sendAlbum"}

IsRender(e) == e.op \in RenderOps

IsCleanupDelete(e) == e.op = "deleteMessage"

\* The render calls a handler issued, in order.
Renders(log) == SelectSeq(log, IsRender)

\* The cleanup deletes a handler issued, in order.
CleanupDeletes(log) == SelectSeq(log, IsCleanupDelete)

\* Slot h holds a callback-query interaction (not a /start command).
Interaction(h) == handlers[h].pc # "idle" /\ handlers[h].data # T_start

\* The interaction of slot h got past the acknowledgment of line 202.
Acknowledged(h) ==
    /\ Interaction(h)
    /\ handlers[h].log # <<>>
    /\ handlers[h].log[1].ok

\* The routing table of the specification, rule by rule.
Rule(i, d) ==
    CASE i = 1 -> d = T_noop
      [] i = 2 -> d = T_available
      [] i = 3 -> Len(d) >= 4 /\ \A k \in 1..4 : d[k] = T_cat[k]
      [] i = 4 -> d \in DOMAIN products
      [] i = 5 -> d \in {T_about, T_delivery, T_payment, T_services, T_warranty}
      [] i = 6 -> d = T_home
      [] i = 7 -> TRUE

FirstRule(d) ==
    CHOOSE i \in 1..7 : Rule(i, d) /\ \A j \in 1..(i - 1) : ~Rule(j, d)

RuleView(i, d) ==
    CASE i = 1 -> View("NoOp", <<>>)
      [] i = 2 -> View("CategoryList", <<>>)
      [] i = 3 -> View("ProductList", [k \in 1..(Len(d) - 4) |-> d[k + 4]])
      [] i = 4 -> View("ProductDetail", d)
      [] i = 5 -> View("StaticPage", d)
      [] i = 6 -> View("Home", <<>>)
      [] i = 7 -> View("None", <<>>)

\* C1: every render call of an interaction shows the view of the first
\* matching rule of the routing table (noop, available, prefix cat_, product
\* id, page key, home, nothing), and a finished interaction rendered exactly
\* when that rule names a view; so a product id starting with "cat_" gets
\* ProductList and a product id equal to a page key or "home" ProductDetail.
C1_FirstMatchRouting ==
    \A h \in Handlers :
        LET s == handlers[h]
            want == RuleView(FirstRule(s.data), s.data)
            rs == Renders(s.log)
        IN  Interaction(h) =>
                /\ \A k \in 1..Len(rs) :
                        rs[k].view = want.view /\ rs[k].arg = want.arg
                /\ s.pc = "done" =>
                        ((rs # <<>>) <=> want.view \notin {"NoOp", "None"})

\* A finished interaction whose token "cat_a" is also a product id rendered
\* ProductList("a").
W_C1 ==
    \E h \in Handlers :
        /\ handlers[h].pc = "done"
        /\ handlers[h].data = T_cat_a
        /\ T_cat_a \in DOMAIN products
        /\ Renders(handlers[h].log) # <<>>
        /\ Renders(handlers[h].log)[1].view = "ProductList"
        /\ Renders(handlers[h].log)[1].arg = K_a

\* The token matches no routing rule.
Unmatched(d) == FirstRule(d) = 7

\* C2: an interaction whose token matches no routing rule leaves the stored
\* last-album list as it was at dispatch and issues no deleteMessage and no
\* render call (its only transport call is the acknowledgment).
C2_UnmatchedTouchesNothing ==
    \A h \in Handlers :
        LET s == handlers[h]
        IN  Interaction(h) /\ Unmatched(s.data) =>
                /\ user_data[s.user] = s.pre[s.user]
                /\ \A k \in 1..Len(s.log) : s.log[k].op = "answer"

\* C3: an interaction with token "noop" leaves the session store as it was at
\* dispatch and issues only acknowledgments: no deleteMessage, sendText,
\* sendAlbum or editMessageText.
C3_NoopOnlyAcknowledges ==
    \A h \in Handlers :
        LET s == handlers[h]
        IN  Interaction(h) /\ s.data = T_noop =>
                /\ user_data = s.pre
                /\ \A k \in 1..Len(s.log) : s.log[k].op = "answer"

\* A finished "noop" interaction dispatched while an album was stored: the
\* album is still stored.
W_C3 ==
    \E h \in Handlers :
        /\ handlers[h].pc = "done"
        /\ handlers[h].data = T_noop
        /\ handlers[h].pre[handlers[h].user] # <<>>
        /\ user_data[handlers[h].user] = handlers[h].pre[handlers[h].user]

\* The conversation an album (a non-empty id list) was sent to.
AlbumChat(ids) == messages[ids[1]].chat

\* The users whose entry of store holds an album sent to conversation c.
Holders(store, c) ==
    {v \in Users : store[v] # <<>> /\ AlbumChat(store[v]) = c}

\* The album last stored by an interaction of conversation c and not yet
\* returned: the one with the latest ids among the albums sent to c.
Pending(store, c) ==
    IF Holders(store, c) = {} THEN <<>>
    ELSE store[CHOOSE v \in Holders(store, c) :
                \A w \in Holders(store, c) : store[w][1] <= store[v][1]]

\* C4: the session store is keyed by conversation: the album a non-noop
\* interaction of conversation c takes is the one last stored by an
\* interaction of c, whichever user sends it, and never an album stored by an
\* interaction of another conversation.
C4_KeyedByConversation ==
    \A h \in Handlers :
        LET s == handlers[h]
        IN  Acknowledged(h) /\ s.data # T_noop =>
                s.album = Pending(s.pre, s.chat)

\* C5: every id in a stored last-album list was returned by sendAlbum, and
\* every cleanup deleteMessage(c, id) targets an id that sendAlbum returned
\* for conversation c.
C5_OnlyOwnAlbumIds ==
    /\ \A u \in Users : \A k \in 1..Len(user_data[u]) :
            /\ user_data[u][k] \in 1..Len(messages)
            /\ messages[user_data[u][k]].kind = "photo"
    /\ \A h \in Handlers :
            LET ds == CleanupDeletes(handlers[h].log)
            IN  \A k \in 1..Len(ds) :
                    /\ ds[k].ids[1] \in 1..Len(messages)
                    /\ messages[ds[k].ids[1]].kind = "photo"
                    /\ messages[ds[k].ids[1]].chat = ds[k].chat

\* The calls of show_product: the sends and the removal of the trigger.
IsDetailCall(e) == e.op \in RenderOps \cup {"deleteTrigger"}

DetailCalls(log) == SelectSeq(log, IsDetailCall)

\* The token of slot h is routed to ProductDetail.
ToProduct(h) == Interaction(h) /\ FirstRule(handlers[h].data) = 4

DetailOrder == <<"sendAlbum", "sendText", "deleteTrigger">>

\* C6: ProductDetail of a product with photos issues, in this order, one
\* sendAlbum with the photo URLs in order, stores exactly the returned ids as
\* the session's last album, then one sendText of the product view, then the
\* deletion of the triggering message; a step is issued only after the
\* earlier ones were accepted.
C6_ProductDetailOrder ==
    \A h \in Handlers :
        LET s == handlers[h]
            cs == DetailCalls(s.log)
        IN  ToProduct(h) /\ products[s.data].photos # <<>> =>
                /\ Len(cs) <= 3
                /\ \A k \in 1..Len(cs) : cs[k].op = DetailOrder[k]
                /\ \A k \in 1..(Len(cs) - 1) : cs[k].ok
                /\ Len(cs) >= 1 => cs[1].media = products[s.data].photos
                /\ Len(cs) >= 1 /\ cs[1].ok =>
                        /\ Len(cs[1].ids) = Len(products[s.data].photos)
                        /\ user_data[s.user] = cs[1].ids
                /\ Len(cs) >= 2 =>
                        cs[2].view = "ProductDetail" /\ cs[2].arg = s.data
                /\ Len(cs) = 3 => cs[3].ids = <<s.msg>>
                /\ s.pc = "send_text" => Len(cs) = 1
                /\ s.pc = "delete_trigger" => Len(cs) = 2
                /\ s.pc = "done" => Len(cs) = 3 /\ cs[3].ok

\* A finished ProductDetail of a product with two photos.
W_C6 ==
    \E h \in Handlers :
        /\ handlers[h].pc = "done"
        /\ ToProduct(h)
        /\ Len(products[handlers[h].data].photos) = 2
        /\ Len(DetailCalls(handlers[h].log)) = 3

\* The ids of the cleanup deletes among the first n calls of log.
DeletedBefore(log, n) ==
    LET ds == CleanupDeletes(SubSeq(log, 1, n))
    IN  [k \in 1..Len(ds) |-> ds[k].ids[1]]

\* C7: a non-noop interaction takes the stored album list (reads it and
\* clears it) and issues a deleteMessage for each taken id before its first
\* render call.
C7_CleanupBeforeRender ==
    \A h \in Handlers :
        LET s == handlers[h]
        IN  Acknowledged(h) /\ s.data # T_noop =>
                /\ s.album = s.pre[s.user]
                /\ Renders(s.log) = <<>> => user_data[s.user] = <<>>
                /\ s.pc = "render" =>
                        DeletedBefore(s.log, Len(s.log)) = s.album
                /\ \A k \in 1..Len(s.log) :
                        IsDetailCall(s.log[k]) =>
                            DeletedBefore(s.log, k - 1) = s.album
                /\ \A k \in 1..Len(s.log) :
                        IsCleanupDelete(s.log[k]) =>
                            \A j \in 1..(k - 1) : ~IsDetailCall(s.log[j])

\* A finished interaction that took an album of two ids and rendered.
W_C7 ==
    \E h \in Handlers :
        /\ handlers[h].pc = "done"
        /\ Len(handlers[h].album) = 2
        /\ Renders(handlers[h].log) # <<>>

\* C8: a non-noop interaction that follows a ProductDetail which stored k
\* ids issues exactly k cleanup deletes, one per stored id in stored order,
\* whatever deletes are rejected; a rejected delete never ends the handling,
\* the render still happens, and the stored list is empty once cleanup is done.
C8_CleanupDeletesEveryId ==
    \A h \in Handlers :
        LET s == handlers[h]
            stored == s.pre[s.user]
            ds == CleanupDeletes(s.log)
        IN  Acknowledged(h) /\ s.data # T_noop /\ stored # <<>> =>
                /\ Len(ds) <= Len(stored)
                /\ \A k \in 1..Len(ds) :
                        ds[k].ids = <<stored[k]>> /\ ds[k].chat = s.chat
                /\ (s.pc = "del") <=> (Len(ds) < Len(stored))
                /\ s.pc = "error" => ~IsCleanupDelete(s.log[Len(s.log)])
                /\ s.pc = "done" /\ ~Unmatched(s.data) => Renders(s.log) # <<>>
                /\ s.pc # "del" /\ Renders(s.log) = <<>> =>
                        user_data[s.user] = <<>>

\* A finished interaction whose first cleanup delete was rejected and whose
\* second was accepted, and which then rendered.
W_C8 ==
    \E h \in Handlers :
        LET ds == CleanupDeletes(handlers[h].log)
        IN  /\ handlers[h].pc = "done"
            /\ Len(handlers[h].pre[handlers[h].user]) = 2
            /\ Len(ds) = 2
            /\ ~ds[1].ok
            /\ ds[2].ok
            /\ Renders(handlers[h].log) # <<>>
            /\ Renders(handlers[h].log)[1].ok

\* The token of slot h is routed to ProductDetail of a product without photos.
ToPlainProduct(h) == ToProduct(h) /\ products[handlers[h].data].photos = <<>>

NoAlbumSent(h) ==
    \A k \in 1..Len(handlers[h].log) : handlers[h].log[k].op # "sendAlbum"

\* C9 as stated: handling the token of a product without photos never calls
\* sendAlbum and leaves the session's last-album list as it was before.
C9_NoPhotosLeavesSession ==
    \A h \in Handlers :
        ToPlainProduct(h) =>
            /\ NoAlbumSent(h)
            /\ user_data[handlers[h].user] = handlers[h].pre[handlers[h].user]

\* C9 as amended: handling the token of a product without photos never calls
\* sendAlbum and never writes an album list to the session; its only session
\* change is the take of the album cleanup, so once the interaction is
\* acknowledged the list is empty, and before that it is as it was.
C9_NoPhotosOnlyCleanup ==
    \A h \in Handlers :
        ToPlainProduct(h) =>
            /\ NoAlbumSent(h)
            /\ Acknowledged(h) => user_data[handlers[h].user] = <<>>
            /\ ~Acknowledged(h) =>
                    user_data[handlers[h].user] = handlers[h].pre[handlers[h].user]

\* A finished ProductDetail of a product without photos, dispatched while an
\* album was stored.
W_C9 ==
    \E h \in Handlers :
        /\ ToPlainProduct(h)
        /\ handlers[h].pc = "done"
        /\ handlers[h].pre[handlers[h].user] # <<>>
        /\ user_data[handlers[h].user] = <<>>

\* The ids of a list.
Ids(seq) == {seq[k] : k \in 1..Len(seq)}

\* The cleanup deletes of all handlers, as (slot, position, id).
AllCleanupDeletes ==
    UNION {{<<h, k, CleanupDeletes(handlers[h].log)[k].ids[1]>> :
                k \in 1..Len(CleanupDeletes(handlers[h].log))} : h \in Handlers}

\* C10: taking and overwriting the stored album are atomic: with handlers of
\* one conversation interleaving at their awaits, no stored id is returned by
\* more than one take (the albums handlers hold are disjoint, and a taken id
\* is no longer stored), so no id gets two cleanup deletes.
C10_NoIdTakenTwice ==
    /\ \A g, h \in Handlers :
            g # h => Ids(handlers[g].album) \cap Ids(handlers[h].album) = {}
    /\ \A h \in Handlers, u \in Users :
            Ids(handlers[h].album) \cap Ids(user_data[u]) = {}
    /\ \A x, y \in AllCleanupDeletes : x[3] = y[3] => x = y

\* Two handlers in flight at once, each holding an album it took.
W_C10 ==
    \E g, h \in Handlers :
        /\ g # h
        /\ InFlight(g) /\ InFlight(h)
        /\ handlers[g].album # <<>>
        /\ handlers[h].album # <<>>

\* The last transport call of a handler.
LastCall(h) == handlers[h].log[Len(handlers[h].log)]

\* C11: a rejected deleteMessage is always swallowed: no handling ends in an
\* error on a rejected delete, be it a cleanup delete of an album message or
\* the delete of the triggering message at the end of ProductDetail.
C11_RejectedDeleteSwallowed ==
    \A h \in Handlers :
        handlers[h].pc = "error" =>
            LastCall(h).op \notin {"deleteMessage", "deleteTrigger"}

\* C12: in every interaction the acknowledgment is the first transport call,
\* whatever the token: nothing is issued before it, the cleanup deletes and
\* the render calls come after it, and nothing follows a rejected one.
C12_AcknowledgedFirst ==
    \A h \in Handlers :
        LET s == handlers[h]
        IN  Interaction(h) =>
                /\ (s.pc = "answer") <=> (s.log = <<>>)
                /\ s.log # <<>> =>
                        /\ s.log[1].op = "answer"
                        /\ ~s.log[1].ok => Len(s.log) = 1
                /\ \A k \in 2..Len(s.log) :
                        s.log[k].op = "answer" => s.data = T_noop

\* A finished interaction with an unrecognized token: its acknowledgment is
\* followed by the cleanup deletes.
W_C12 ==
    \E h \in Handlers :
        /\ handlers[h].pc = "done"
        /\ handlers[h].data = T_zzz
        /\ Len(handlers[h].log) >= 2
        /\ handlers[h].log[1].op = "answer"
        /\ handlers[h].log[2].op = "deleteMessage"

\* C13: the display-name transform is idempotent: for every raw name and
\* price, a record processed twice carries the name it carried after the
\* first pass.
C13_DisplayNameIdempotent ==
    \A k \in DOMAIN products :
        products[k].loads >= 2 => products[k].name = products[k].once

\* The product-list renders of the handlers: <<slot, index in the log>>.
ListRenders ==
    UNION {{<<h, k>> : k \in {j \in 1..Len(handlers[h].log) :
                /\ handlers[h].log[j].op = "editMessageText"
                /\ handlers[h].log[j].view = "ProductList"}} : h \in Handlers}

\* The products of a category.
InCategory(key) == {k \in DOMAIN products : products[k].category = key}

\* The footer of a product list: back to the categories, home, contact.
ListFooter ==
    <<<<Button(T_available), Button(T_home)>>, <<ContactButton>>>>

\* C14: a product list of a category without products (a key absent from
\* the category map included, shown under the fallback label) has exactly
\* one placeholder button with token "available" and then the footer; a
\* list of n >= 1 products has exactly n product buttons, one per row in
\* catalog load order, each with its product id as token, no placeholder,
\* and then the footer.
C14_ProductListButtons ==
    \A x \in ListRenders :
        LET call == handlers[x[1]].log[x[2]]
            key == call.arg
            S == InCategory(key)
            n == Cardinality(S)
            kbd == call.kbd
        IN  /\ key \notin DOMAIN categories => call.label = "unknown"
            /\ key \in DOMAIN categories => call.label = categories[key]
            /\ n = 0 => kbd = <<<<Button(T_available)>>>> \o ListFooter
            /\ n >= 1 =>
                    /\ Len(kbd) = n + 2
                    /\ SubSeq(kbd, n + 1, n + 2) = ListFooter
                    /\ \A i \in 1..n :
                            /\ Len(kbd[i]) = 1
                            /\ kbd[i][1].kind = "callback"
                            /\ kbd[i][1].data \in S
                    /\ \A i, j \in 1..n :
                            i < j => products[kbd[i][1].data].pos
                                        < products[kbd[j][1].data].pos

\* A product list of two products has been rendered, p2 (loaded first) above
\* p1.
W_C14 ==
    \E x \in ListRenders :
        LET call == handlers[x[1]].log[x[2]]
        IN  /\ handlers[x[1]].pc = "done"
            /\ call.ok
            /\ Cardinality(InCategory(call.arg)) = 2
            /\ products[T_p2].pos = 1
            /\ call.kbd[1] = <<Button(T_p2)>>
            /\ call.kbd[2] = <<Button(T_p1)>>

\* The calls with operation op in the log of slot h.
CallsOf(h, op) ==
    {k \in 1..Len(handlers[h].log) : handlers[h].log[k].op = op}

\* The last call of slot h is a rejected op.
RejectedLast(h, op) ==
    /\ handlers[h].log # <<>>
    /\ LastCall(h).op = op
    /\ ~LastCall(h).ok

\* The interaction of slot h is over and its cleanup ran.
CleanedUp(h) ==
    /\ Acknowledged(h)
    /\ handlers[h].data # T_noop
    /\ handlers[h].pc \in {"done", "error"}

\* C15: a send rejected during ProductDetail of a product with photos: if
\* sendAlbum is rejected the session's list stays empty, there is no
\* sendText and the triggering message is not deleted; if sendAlbum is
\* accepted and sendText rejected, the album ids are already stored and the
\* trigger is not deleted; and the cleanup of a non-noop interaction issues
\* a delete for every id stored when it was dispatched.
C15_FailedSendLeavesSession ==
    \A h \in Handlers :
        LET s == handlers[h]
        IN  /\ (ToProduct(h) /\ RejectedLast(h, "sendAlbum")) =>
                    /\ s.pc = "error"
                    /\ user_data[s.user] = <<>>
                    /\ CallsOf(h, "sendText") = {}
                    /\ CallsOf(h, "deleteTrigger") = {}
                    /\ Live(s.chat, s.msg)
            /\ (ToProduct(h) /\ RejectedLast(h, "sendText")
                    /\ CallsOf(h, "sendAlbum") # {}) =>
                    /\ s.pc = "error"
                    /\ user_data[s.user] = s.log[Len(s.log) - 1].ids
                    /\ user_data[s.user] # <<>>
                    /\ \A k \in 1..Len(user_data[s.user]) :
                            Live(s.chat, user_data[s.user][k])
                    /\ CallsOf(h, "deleteTrigger") = {}
                    /\ Live(s.chat, s.msg)
            /\ CleanedUp(h) =>
                    \A k \in 1..Len(s.pre[s.user]) :
                        \E j \in CallsOf(h, "deleteMessage") :
                            s.log[j].ids = <<s.pre[s.user][k]>>

\* An album whose text message was never sent (the album closes the list of
\* messages) has been deleted by the cleanup of the next interaction.
W_C15 ==
    \E h \in Handlers :
        /\ CleanedUp(h)
        /\ handlers[h].pre[handlers[h].user] # <<>>
        /\ messages[Len(messages)].kind = "photo"
        /\ \A k \in 1..Len(handlers[h].pre[handlers[h].user]) :
                ~messages[handlers[h].pre[handlers[h].user][k]].live
        /\ \E j \in CallsOf(h, "deleteMessage") :
                handlers[h].log[j].ids = <<Len(messages)>>

\* The album messages of conversation c that were not deleted.
LiveAlbum(c) ==
    {m \in 1..Len(messages) : Live(c, m) /\ messages[m].kind = "photo"}

\* C16: with every deleteMessage accepted, whenever no handling is in
\* flight the live album messages of a conversation are exactly the ids of
\* its session's last-album list: at most one album is live per
\* conversation and none is orphaned.
C16_LiveAlbumIsStored ==
    NoneInFlight =>
        \A c \in Chats : LiveAlbum(c) = Ids(Pending(user_data, c))

\* The rendered keyboards: <<slot, index in the log>> of the calls that
\* carry one.
Rendered ==
    UNION {{<<h, k>> : k \in {j \in 1..Len(handlers[h].log) :
                handlers[h].log[j].kbd # <<>>}} : h \in Handlers}

\* The rows of call that hold product buttons: all but the footer of a
\* product list of a category that has products.
ProductRows(call) ==
    IF call.view = "ProductList" /\ InCategory(call.arg) # {}
    THEN 1..(Len(call.kbd) - 2)
    ELSE {}

\* The tokens of the fixed buttons of call: every callback button outside
\* the product rows.
FixedTokens(call) ==
    UNION {{call.kbd[i][j].data :
                j \in {n \in 1..Len(call.kbd[i]) :
                            call.kbd[i][n].kind = "callback"}} :
            i \in (1..Len(call.kbd)) \ ProductRows(call)}

\* The view a fixed button is rendered for.
Intended(d) ==
    IF d = T_noop THEN View("NoOp", <<>>)
    ELSE IF d = T_home THEN View("Home", <<>>)
    ELSE IF d = T_available THEN View("CategoryList", <<>>)
    ELSE IF d \in PageKeys THEN View("StaticPage", d)
    ELSE View("ProductList", SubSeq(d, Len(T_cat) + 1, Len(d)))

\* A product id that no earlier routing rule claims.
Reachable(k) == k # T_noop /\ k # T_available /\ ~StartsWith(k, T_cat)

\* C17 as stated: whatever ids the catalog holds, the button of product k
\* in a product list routes to ProductDetail of k, and every fixed button
\* routes to the view it is rendered for.
C17_NavigationClosed ==
    \A x \in Rendered :
        LET call == handlers[x[1]].log[x[2]]
        IN  /\ \A i \in ProductRows(call) :
                    LET k == call.kbd[i][1].data
                    IN  /\ k \in InCategory(call.arg)
                        /\ RouteView(k, products) = View("ProductDetail", k)
            /\ \A d \in FixedTokens(call) :
                    RouteView(d, products) = Intended(d)

\* C17 amended: the button of product k routes to ProductDetail of k unless
\* k is "noop", "available" or starts with "cat_"; the buttons "available"
\* and "cat_"+key route to their views whatever the catalog holds; "home"
\* and the page keys route to their views unless a product has that very
\* id, and then to ProductDetail of that product.
C17_NavigationClosedOverFreeIds ==
    \A x \in Rendered :
        LET call == handlers[x[1]].log[x[2]]
        IN  /\ \A i \in ProductRows(call) :
                    LET k == call.kbd[i][1].data
                    IN  /\ k \in InCategory(call.arg)
                        /\ Reachable(k) =>
                              RouteView(k, products) = View("ProductDetail", k)
            /\ \A d \in FixedTokens(call) :
                    IF d \in DOMAIN products /\ Reachable(d)
                    THEN RouteView(d, products) = View("ProductDetail", d)
                    ELSE RouteView(d, products) = Intended(d)

\* A product list has been rendered with the button of p1 next to the
\* button of a product whose id is "home".
W_C17 ==
    \E x \in Rendered :
        LET call == handlers[x[1]].log[x[2]]
        IN  /\ call.ok
            /\ handlers[x[1]].pc = "done"
            /\ \E i, j \in ProductRows(call) :
                    /\ call.kbd[i] = <<Button(T_p1)>>
                    /\ call.kbd[j] = <<Button(T_home)>>

\* Every transport call of slot h was accepted.
AllAccepted(h) ==
    \A k \in 1..Len(handlers[h].log) : handlers[h].log[k].ok

\* The accepted calls with operation op in the log of slot h.
AcceptedCalls(h, op) == {k \in CallsOf(h, op) : handlers[h].log[k].ok}

\* C18: with every transport call accepted, a handled interaction leaves
\* the number of live keyboard messages of the conversation as it was at
\* dispatch: CategoryList, ProductList, StaticPage and Home edit the
\* triggering message in place, ProductDetail sends one new keyboard message
\* and deletes the triggering one; the start command adds one.
C18_KeyboardCountKept ==
    \A h \in Handlers :
        LET s == handlers[h]
            r == RouteView(s.data, products)
            n == Cardinality(LiveKeyboards(s.chat))
        IN  s.pc = "done" /\ AllAccepted(h) =>
                IF s.data = T_start /\ s.msg = 0
                THEN n = s.kbd0 + 1
                ELSE /\ n = s.kbd0
                     /\ r.view \in EditViews =>
                            /\ s.msg \in LiveKeyboards(s.chat)
                            /\ CallsOf(h, "sendText") = {}
                            /\ \E k \in CallsOf(h, "editMessageText") :
                                    s.log[k].ids = <<s.msg>>
                     /\ r.view = "ProductDetail" =>
                            /\ s.msg \notin LiveKeyboards(s.chat)
                            /\ Cardinality(CallsOf(h, "sendText")) = 1
                            /\ \A k \in CallsOf(h, "sendText") :
                                    s.log[k].ids[1] \in LiveKeyboards(s.chat)
                            /\ \E k \in CallsOf(h, "deleteTrigger") :
                                    s.log[k].ids = <<s.msg>>

\* A finished ProductDetail of a product with photos, every call accepted:
\* the conversation has as many keyboard messages as before.
W_C18 ==
    \E h \in Handlers :
        /\ handlers[h].pc = "done"
        /\ AllAccepted(h)
        /\ ToProduct(h)
        /\ CallsOf(h, "sendAlbum") # {}
        /\ handlers[h].kbd0 >= 1
        /\ Cardinality(LiveKeyboards(handlers[h].chat)) = handlers[h].kbd0

\* Slot h holds a start command.
Started(h) == handlers[h].pc # "idle" /\ handlers[h].data = T_start

\* C19: the start command sends one new text message with the main menu
\* keyboard and does nothing else: one transport call, no routing, no
\* deleteMessage, the session store as it was, so that an album stored
\* before the command is still stored and its messages are still there.
C19_StartOnlySendsHome ==
    \A h \in Handlers :
        LET s == handlers[h]
        IN  Started(h) =>
                /\ s.pc \in {"done", "error"}
                /\ Len(s.log) = 1
                /\ s.log[1].op = "sendText"
                /\ s.log[1].chat = s.chat
                /\ s.log[1].view = "Home"
                /\ s.log[1].kbd = main_menu_keyboard
                /\ FixedTokens(s.log[1]) = PageKeys \cup {T_available}
                /\ s.log[1].ok <=> s.pc = "done"
                /\ s.log[1].ok =>
                        /\ Len(s.log[1].ids) = 1
                        /\ s.log[1].ids[1] \in LiveKeyboards(s.chat)
                /\ s.album = <<>>
                /\ user_data = s.pre
                /\ \A k \in 1..Len(s.pre[s.user]) :
                        /\ s.pre[s.user][k] \in 1..Len(messages)
                        /\ messages[s.pre[s.user][k]].live

\* A start command handled while an album was stored.
W_C19 ==
    \E h \in Handlers :
        /\ Started(h)
        /\ handlers[h].pc = "done"
        /\ handlers[h].pre[handlers[h].user] # <<>>
        /\ user_data[handlers[h].user] = handlers[h].pre[handlers[h].user]
        /\ messages[user_data[handlers[h].user][1]].live

====
